---- MODULE Spec2Model ----
(***************************************************************************)
(* A model of the consensus node of laohanlinux/consensus:                 *)
(*   - the PBFT core's Request handler (src/consensus/pbft/core/request.rs)*)
(*   - the DPoS slot clock             (dpos/src/slot.rs)                  *)
(*   - the p2p TcpServer actor         (src/p2p/server.rs)                 *)
(* Each part has its own specification: SpecCore, SpecSlot, SpecRound      *)
(* (calc_round and the delegates), SpecVote and SpecAgreement (the PBFT    *)
(* votes, of one core and of the honest delegates together), and for the   *)
(* server SpecConnect, SpecLiveness, SpecPublish and SpecReceive (with     *)
(* SpecRegistry, the registry events together), SpecEntries (the events    *)
(* that create and remove registry entries) and SpecTimers (the sweep      *)
(* timer against the sessions' ping timers). The variables of the other    *)
(* parts stay at their initial values.                                     *)
(***************************************************************************)
EXTENDS Integers, Sequences, FiniteSets, TLC

(***************************************************************************)
(* Bounds of the model.                                                    *)
(***************************************************************************)
MaxHeight == 7
MaxRound == 1
NumProposals == 2
MaxBefore == 6
MaxAfter == 24
TicksPerSec == 2
MaxSec == 4
MaxSessions == 2
MaxDials == 1
MaxPublish == 2
MaxHandled == 2
MaxSmallHeight == 24
MaxBigOffset == 12
MaxSlot == 12
MaxChainHeight == 3
MaxTimerSec == 10

VARIABLES
    \* ---- consensus core (Core in request.rs) ----
    height,             \* self.current_state.height()
    round,              \* current round at this height
    state,              \* self.state (protocol::State)
    pending_request,    \* self.current_state.pending_request : Option, <<>> or <<proposal>>
    core_panicked,      \* the assert_eq! of handle failed
    core_last           \* the last operation of the core: its input, result and output

VARIABLES
    \* ---- slot clock (slot.rs) ----
    clock,              \* time::get_time().sec, the wall clock in seconds
    slot_last           \* the last slot computation: its input and results

VARIABLES
    \* ---- p2p server (TcpServer in server.rs) ----
    now,                \* the wall clock, in ticks of 1/TicksPerSec seconds
    peers,              \* self.peers : HashMap<PeerId, ConnectInfo>
    cache,              \* self.cache : LruCache<Hash, bool>, as a set of [hash, at]
    sessions,           \* the Session actors created so far; a pid is an index
    outbox,             \* per session: what the server has do_send'ed to it
    dials,              \* the outbound dials scheduled by add_peer and not yet finished
    handled,            \* the invocations of self.handles so far
    n_publish,          \* the number of BroadcastEvents handled
    net_panicked,       \* a handler of the server panicked
    net_last,           \* the last event of the server: its input and result
    started_at          \* the instant TcpServer::started ran, in ticks

VARIABLES
    \* ---- PBFT votes (consensus core, prepare / commit) ----
    prepares,           \* the core's Prepare votes of the current (height, round)
    locked_hash,        \* the hash the core has sent a Commit for, or NoHash
    cluster             \* the honest delegates of one (height, round): how many
                        \* are in each phase on each proposal hash

coreVars == <<height, round, state, pending_request, core_panicked, core_last>>
voteVars == <<prepares, locked_hash, cluster>>
slotVars == <<clock, slot_last>>

netVars == <<now, peers, cache, sessions, outbox, dials, handled, n_publish,
             net_panicked, net_last, started_at>>

notCore == <<slotVars, netVars, voteVars>>
notSlot == <<coreVars, netVars, voteVars>>
\* what no handler of the server writes
notNet == <<coreVars, slotVars, voteVars, started_at>>

vars == <<coreVars, slotVars, netVars, voteVars>>

(***************************************************************************)
(* Consensus core: request.rs                                              *)
(***************************************************************************)
States == {"AcceptRequest", "Preprepared", "Prepared", "Committed", "Finalized"}

Proposals == [height : 0..(MaxHeight + 2), id : 1..NumProposals]

NoProposal == [height |-> 0, id |-> 0]

\* check_request_message: the result for a core at height h of a request whose
\* block is at height bh.
check_request_message_swapped(h, bh) ==
    IF h > bh THEN "OldMessage"
    ELSE IF h < bh THEN "FutureMessage"
    ELSE IF h = 0 THEN "WaitNewRound"
    ELSE "Ok"

check_request_message(h, bh) ==
    IF h = 0 THEN "WaitNewRound"
    ELSE IF h > bh THEN "OldMessage"
    ELSE IF h < bh THEN "FutureMessage"
    ELSE "Ok"

\* accept: the new value of pending_request.
accept_keep_first(pending, proposal) ==
    IF pending = <<>> THEN <<proposal>> ELSE pending

accept(pending, proposal) == <<proposal>>

\* send_preprepare (preprepare.rs): the Preprepare handed to the broadcast plane.
send_preprepare(proposal, h, r) ==
    [kind |-> "Preprepare", height |-> h, round |-> r, proposal |-> proposal]

\* The phase send_preprepare leaves the core in.
preprepare_phase == "Preprepared"

CoreOp(op, proposal, check, result, sent, prev) ==
    [op |-> op, proposal |-> proposal, check |-> check, result |-> result,
     sent |-> sent, prev_state |-> prev.state, prev_pending |-> prev.pending]

CorePrev == [state |-> state, pending |-> pending_request]

\* before any operation of the core
CoreIdle ==
    [op |-> "init", proposal |-> NoProposal, check |-> "None", result |-> "None",
     sent |-> <<>>, prev_state |-> "AcceptRequest", prev_pending |-> <<>>]

\* handle, starting a request's rounds over
handle_reset_round(request) ==
    /\ ~core_panicked
    /\ LET res == check_request_message(height, request.height) IN
       IF res # "Ok" THEN
            /\ core_last' = CoreOp("handle", request, res, res, <<>>, CorePrev)
            /\ UNCHANGED <<height, round, state, pending_request, core_panicked>>
       ELSE IF state # "AcceptRequest" THEN
            /\ core_panicked' = TRUE
            /\ core_last' = CoreOp("handle", request, res, "Panic", <<>>, CorePrev)
            /\ UNCHANGED <<height, round, state, pending_request>>
       ELSE
            /\ pending_request' = accept(pending_request, request)
            /\ state' = preprepare_phase
            /\ round' = 0
            /\ core_last' = CoreOp("handle", request, res, "Ok",
                                   <<send_preprepare(request, height, 0)>>, CorePrev)
            /\ UNCHANGED <<height, core_panicked>>

\* handle, buffering the request before checking it
handle_accept_before_check(request) ==
    /\ ~core_panicked
    /\ LET res == check_request_message(height, request.height) IN
       IF res # "Ok" THEN
            /\ pending_request' = accept(pending_request, request)
            /\ core_last' = CoreOp("handle", request, res, res, <<>>, CorePrev)
            /\ UNCHANGED <<height, round, state, core_panicked>>
       ELSE IF state # "AcceptRequest" THEN
            /\ core_panicked' = TRUE
            /\ core_last' = CoreOp("handle", request, res, "Panic", <<>>, CorePrev)
            /\ UNCHANGED <<height, round, state, pending_request>>
       ELSE
            /\ pending_request' = accept(pending_request, request)
            /\ state' = preprepare_phase
            /\ core_last' = CoreOp("handle", request, res, "Ok",
                                   <<send_preprepare(request, height, round)>>, CorePrev)
            /\ UNCHANGED <<height, round, core_panicked>>

\* HandlerRequest::handle
handle(request) ==
    /\ ~core_panicked
    /\ LET res == check_request_message(height, request.height) IN
       IF res # "Ok" THEN
            /\ core_last' = CoreOp("handle", request, res, res, <<>>, CorePrev)
            /\ UNCHANGED <<height, round, state, pending_request, core_panicked>>
       ELSE IF state # "AcceptRequest" THEN
            \* assert_eq!(self.state, State::AcceptRequest) panics
            /\ core_panicked' = TRUE
            /\ core_last' = CoreOp("handle", request, res, "Panic", <<>>, CorePrev)
            /\ UNCHANGED <<height, round, state, pending_request>>
       ELSE
            /\ pending_request' = accept(pending_request, request)
            /\ state' = preprepare_phase
            /\ core_last' = CoreOp("handle", request, res, "Ok",
                                   <<send_preprepare(request, height, round)>>, CorePrev)
            /\ UNCHANGED <<height, round, core_panicked>>

HandleRequest ==
    /\ \E request \in Proposals : handle(request)
    /\ UNCHANGED notCore

\* The rest of the state machine, which request.rs does not contain.
next_phase(s) ==
    CASE s = "Preprepared" -> "Prepared"
      [] s = "Prepared" -> "Committed"
      [] s = "Committed" -> "Finalized"
      [] OTHER -> s

\* Quorum reached (prepare, commit) or block finalised by the chain.
PhaseAdvance ==
    /\ ~core_panicked
    /\ state \in {"Preprepared", "Prepared", "Committed"}
    /\ state' = next_phase(state)
    /\ core_last' = CoreOp("PhaseAdvance", NoProposal, "None", "None", <<>>, CorePrev)
    /\ UNCHANGED <<height, round, pending_request, core_panicked>>
    /\ UNCHANGED notCore

\* Warm-up out of height 0, or Finalized -> AcceptRequest at height + 1.
StartNewHeight ==
    /\ ~core_panicked
    /\ height = 0 \/ state = "Finalized"
    /\ height < MaxHeight
    /\ height' = height + 1
    /\ round' = 0
    /\ state' = "AcceptRequest"
    /\ pending_request' = <<>>
    /\ core_last' = CoreOp("StartNewHeight", NoProposal, "None", "None", <<>>, CorePrev)
    /\ UNCHANGED core_panicked
    /\ UNCHANGED notCore

\* Round timeout: new round at the same height, back to AcceptRequest.
RoundTimeout ==
    /\ ~core_panicked
    /\ height > 0
    /\ state # "Finalized"
    /\ round < MaxRound
    /\ round' = round + 1
    /\ state' = "AcceptRequest"
    /\ core_last' = CoreOp("RoundTimeout", NoProposal, "None", "None", <<>>, CorePrev)
    /\ UNCHANGED <<height, pending_request, core_panicked>>
    /\ UNCHANGED notCore

NextCore ==
    \/ HandleRequest
    \/ PhaseAdvance
    \/ StartNewHeight
    \/ RoundTimeout

(***************************************************************************)
(* Slot clock: dpos/src/slot.rs                                            *)
(***************************************************************************)
INTERVAL == 3
DELEGATES == 11

\* "Fri, 14 Jul 2017 02:40:00 +0000" as a unix timestamp
begin_epoch_time == 1500000000

\* The / of i64: the quotient truncated toward zero (b > 0).
i64_div(a, b) == IF a >= 0 THEN a \div b ELSE -((-a) \div b)

epoch_time(sec) == sec - begin_epoch_time

get_time(sec) == epoch_time(sec)

get_slot_number_round_up(e) == i64_div(e + INTERVAL - 1, INTERVAL)

get_slot_number_rem(e) == e % INTERVAL

get_slot_number(e) == i64_div(e, INTERVAL)

get_slot_time(slot) == slot * INTERVAL

ClockRange == (begin_epoch_time - MaxBefore)..(begin_epoch_time + MaxAfter)

\* The slot of the instant sec, as get_next_slot computes it from the clock,
\* and the start of that slot; with the reading and result of the call before.
SlotOp(sec) ==
    LET e == get_time(sec)
        slot == get_slot_number(e)
    IN  [op |-> "slot", time_sec |-> sec, epoch_time |-> e, slot |-> slot,
         slot_time |-> get_slot_time(slot), next_slot |-> slot + 1,
         prev_op |-> slot_last.op, prev_time_sec |-> slot_last.time_sec,
         prev_next_slot |-> slot_last.next_slot]

\* before any slot computation
SlotIdle ==
    [op |-> "init", time_sec |-> 0, epoch_time |-> 0, slot |-> 0, slot_time |-> 0,
     next_slot |-> 0, prev_op |-> "init", prev_time_sec |-> 0, prev_next_slot |-> 0]

\* get_next_slot: reads the clock and computes the current slot + 1
GetNextSlot ==
    /\ slot_last' = SlotOp(clock)
    /\ UNCHANGED clock
    /\ UNCHANGED notSlot

\* The wall clock advances by a second.
ClockTick ==
    /\ clock + 1 \in ClockRange
    /\ clock' = clock + 1
    /\ UNCHANGED slot_last
    /\ UNCHANGED notSlot

NextSlot ==
    \/ GetNextSlot
    \/ ClockTick

(***************************************************************************)
(* calc_round: dpos/src/slot.rs. An i64 height does not fit the integers   *)
(* of the model checker, so a non-negative i64 is a sequence of bits, most *)
(* significant first, without leading zeros (0 is <<>>).                   *)
(***************************************************************************)
\* the bits of the significand of an f64
F64_MANT == 53

RECURSIVE NatBits(_)
NatBits(n) == IF n = 0 THEN <<>> ELSE Append(NatBits(n \div 2), n % 2)

Zeros(n) == [i \in 1..n |-> 0]

\* b * 2^e
ShiftLeft(b, e) == IF b = <<>> THEN <<>> ELSE b \o Zeros(e)

\* 2^e + d, for 0 <= d < 2^e
Pow2Plus(e, d) == <<1>> \o Zeros(e - Len(NatBits(d))) \o NatBits(d)

\* b without its leading zeros
Normalize(b) ==
    IF \A i \in 1..Len(b) : b[i] = 0 THEN <<>>
    ELSE LET k == CHOOSE i \in 1..Len(b) :
                    b[i] = 1 /\ \A j \in 1..(i - 1) : b[j] = 0
         IN  SubSeq(b, k, Len(b))

\* b + 1
BitsInc(b) ==
    IF \A i \in 1..Len(b) : b[i] = 1 THEN <<1>> \o Zeros(Len(b))
    ELSE LET k == CHOOSE i \in 1..Len(b) :
                    b[i] = 0 /\ \A j \in (i + 1)..Len(b) : b[j] = 1
         IN  SubSeq(b, 1, k - 1) \o <<1>> \o Zeros(Len(b) - k)

\* a <= b
BitsLe(a, b) ==
    \/ Len(a) < Len(b)
    \/ /\ Len(a) = Len(b)
       /\ \/ a = b
          \/ \E i \in 1..Len(a) :
                /\ a[i] < b[i]
                /\ \A j \in 1..(i - 1) : a[j] = b[j]

\* Long division by the small positive d of the bits b that follow a
\* remainder r0 < d: one quotient bit per bit of b, and the remainder. The
\* bits are taken half by half, the remainder of the first half carried into
\* the second.
RECURSIVE DivFrom(_, _, _)
DivFrom(r0, b, d) ==
    IF b = <<>> THEN [q |-> <<>>, r |-> r0]
    ELSE IF Len(b) = 1 THEN
        [q |-> <<(2 * r0 + b[1]) \div d>>, r |-> (2 * r0 + b[1]) % d]
    ELSE LET mid == Len(b) \div 2
             left == DivFrom(r0, SubSeq(b, 1, mid), d)
             right == DivFrom(left.r, SubSeq(b, mid + 1, Len(b)), d)
         IN  [q |-> left.q \o right.q, r |-> right.r]

\* b divided by the small positive d: quotient and remainder
DivSmall(b, d) ==
    LET p == DivFrom(0, b, d) IN [q |-> Normalize(p.q), r |-> p.r]

\* Round to nearest, ties to even, of the integer b given what lies below its
\* last bit: the next bit (guard) and whether anything non-zero follows it.
RoundNearestEven(b, guard, sticky) ==
    LET odd == b # <<>> /\ b[Len(b)] = 1
    IN  IF guard = 1 /\ (sticky \/ odd) THEN BitsInc(b) ELSE b

\* Round the integer b, with a non-zero part below it iff below, to at most
\* F64_MANT significant bits.
RoundToMant(b, below) ==
    IF Len(b) <= F64_MANT THEN b
    ELSE LET keep == SubSeq(b, 1, F64_MANT)
             rest == SubSeq(b, F64_MANT + 1, Len(b))
             sticky == below \/ \E i \in 2..Len(rest) : rest[i] = 1
         IN  RoundNearestEven(keep, rest[1], sticky) \o Zeros(Len(rest))

\* `height as f64`: the nearest f64, an integer again.
i64_as_f64(h) == RoundToMant(h, FALSE)

\* The f64 quotient x / d of an integer-valued x by the small integer d,
\* correctly rounded: its integer part, and whether a fraction is left.
f64_div(x, d) ==
    LET p == DivSmall(x, d)
        L == Len(p.q)
    IN  IF p.r = 0 THEN [int |-> RoundToMant(p.q, FALSE), frac |-> FALSE]
        ELSE IF L > F64_MANT THEN [int |-> RoundToMant(p.q, TRUE), frac |-> FALSE]
        ELSE IF L = F64_MANT THEN
            [int |-> RoundNearestEven(p.q, IF 2 * p.r >= d THEN 1 ELSE 0,
                                      2 * p.r # d),
             frac |-> FALSE]
        ELSE IF L = 0 THEN [int |-> <<>>, frac |-> TRUE]
        ELSE \* F64_MANT - L bits of fraction: round(r * 2^s / d)
            LET s == F64_MANT - L
                f == DivSmall(ShiftLeft(NatBits(p.r), s), d)
                fr == RoundNearestEven(f.q, IF 2 * f.r >= d THEN 1 ELSE 0,
                                       2 * f.r # d)
            IN  IF fr = <<>> THEN [int |-> p.q, frac |-> FALSE]
                ELSE IF Len(fr) > s THEN [int |-> BitsInc(p.q), frac |-> FALSE]
                ELSE [int |-> p.q, frac |-> TRUE]

\* f64::ceil, then `as i64` (the values here are below 2^63)
f64_ceil(v) == IF v.frac THEN BitsInc(v.int) ELSE v.int

calc_round(h) == f64_ceil(f64_div(i64_as_f64(h), DELEGATES))

\* the heights modelled: the first ones, and the first ones from 2^53 on
Heights ==
    {NatBits(n) : n \in 0..MaxSmallHeight}
        \cup {Pow2Plus(F64_MANT, d) : d \in 0..MaxBigOffset}

ACTIVE_DELEGATES == <<"a", "b", "c", "d", "e", "f", "g", "h", "i", "j", "k">>

get_active_delegates_rotating(h) ==
    [i \in 1..DELEGATES |-> ACTIVE_DELEGATES[((i - 1 + h) % DELEGATES) + 1]]

get_active_delegates(h) == ACTIVE_DELEGATES

\* proposer(slot) = delegates[slot mod DELEGATES], a 0-based index
proposer_of(s, h) ==
    LET delegates == get_active_delegates(h)
    IN  delegates[(s % Len(delegates)) + 1]

RoundOp(h) ==
    [op |-> "calc_round", height |-> h, round |-> calc_round(h),
     prev_op |-> slot_last.op,
     prev_height |-> IF slot_last.op = "calc_round" THEN slot_last.height ELSE <<>>,
     prev_round |-> IF slot_last.op = "calc_round" THEN slot_last.round ELSE <<>>]

\* calc_round(height)
CalcRound ==
    /\ \E h \in Heights : slot_last' = RoundOp(h)
    /\ UNCHANGED clock
    /\ UNCHANGED notSlot

\* the proposer of a slot at a height, and of the slot DELEGATES later at
\* another height
ProposerOf ==
    /\ \E s \in 0..MaxSlot, h, h2 \in 1..MaxChainHeight :
          slot_last' = [op |-> "proposer", slot |-> s, height |-> h,
                        delegates |-> get_active_delegates(h),
                        proposer |-> proposer_of(s, h),
                        height2 |-> h2,
                        proposer2 |-> proposer_of(s + DELEGATES, h2)]
    /\ UNCHANGED clock
    /\ UNCHANGED notSlot

NextRound ==
    \/ CalcRound
    \/ ProposerOf

(***************************************************************************)
(* PBFT votes. The prepare and commit handlers are not part of request.rs; *)
(* they follow the transition table and the acceptance rules of the        *)
(* design: f = floor((N-1)/3), quorum Q = 2f+1, N the number of delegates. *)
(***************************************************************************)
VoteHashes == {"H", "H'"}
NoHash == "none"

\* the delegates, by index into ACTIVE_DELEGATES
Senders == 1..DELEGATES

byzantine_f(n) == (n - 1) \div 3

quorum_f_plus_one(n) == byzantine_f(n) + 1

quorum(n) == 2 * byzantine_f(n) + 1

\* prepares: how often the vote of each (sender, hash) is held
NoVotes == [v \in Senders \X VoteHashes |-> 0]

add_vote_counting(votes, sender, hash) ==
    [votes EXCEPT ![<<sender, hash>>] = @ + 1]

\* a vote already held is ignored
add_vote(votes, sender, hash) ==
    [votes EXCEPT ![<<sender, hash>>] = 1]

RECURSIVE tally_upto(_, _, _)
tally_upto(votes, hash, n) ==
    IF n = 0 THEN 0 ELSE votes[<<n, hash>>] + tally_upto(votes, hash, n - 1)

tally_any_hash(votes, hash) ==
    tally_upto(votes, "H", DELEGATES) + tally_upto(votes, "H'", DELEGATES)

\* the votes held on one hash
tally(votes, hash) == tally_upto(votes, hash, DELEGATES)

Prepare(hash) == [kind |-> "Prepare", hash |-> hash]
Commit(hash) == [kind |-> "Commit", hash |-> hash]

VoteOp(op, sender, hash, dup, sent) ==
    [op |-> op, sender |-> sender, hash |-> hash, dup |-> dup, sent |-> sent,
     prev_state |-> state, prev_locked |-> locked_hash]

\* The handler treats all senders alike, so the senders of the new votes on a
\* hash come in a fixed order: 1, 2, ... on "H" and DELEGATES, DELEGATES - 1,
\* ... on "H'"; once both orders overlap, a sender has voted on both hashes.
next_sender(votes, hash) ==
    IF hash = "H" THEN tally(votes, hash) + 1 ELSE DELEGATES - tally(votes, hash)

\* AcceptRequest --(valid Preprepare from proposer)--> send Prepare, Preprepared;
\* and on to Prepared when the quorum of prepares on the hash is already held.
HandlePreprepare ==
    /\ ~core_panicked
    /\ state = "AcceptRequest"
    /\ \E hash \in VoteHashes :
        IF tally(prepares, hash) >= quorum(DELEGATES) THEN
            /\ state' = "Prepared"
            /\ locked_hash' = hash
            /\ core_last' = VoteOp("preprepare", 0, hash, FALSE,
                                   <<Prepare(hash), Commit(hash)>>)
        ELSE
            /\ state' = "Preprepared"
            /\ core_last' = VoteOp("preprepare", 0, hash, FALSE, <<Prepare(hash)>>)
            /\ UNCHANGED locked_hash
    /\ UNCHANGED <<height, round, pending_request, core_panicked, prepares, cluster>>
    /\ UNCHANGED <<slotVars, netVars>>

\* A Prepare of the current (height, round). A vote already held is ignored.
\* A new vote is tallied under its hash; when that hash reaches the quorum the
\* core in Preprepared sends Commit and moves to Prepared, and the core in
\* Prepared on another hash unlocks and adopts the hash.
HandlePrepare ==
    /\ ~core_panicked
    /\ \E sender \in Senders, hash \in VoteHashes :
        LET dup == prepares[<<sender, hash>>] > 0
            votes == add_vote(prepares, sender, hash)
            reached == ~dup /\ tally(votes, hash) >= quorum(DELEGATES)
        IN  /\ dup \/ sender = next_sender(prepares, hash)
            /\ prepares' = votes
            /\ IF reached /\ state = "Preprepared" THEN
                    /\ state' = "Prepared"
                    /\ locked_hash' = hash
                    /\ core_last' = VoteOp("prepare", sender, hash, dup, <<Commit(hash)>>)
               ELSE IF reached /\ state = "Prepared" /\ locked_hash # hash THEN
                    /\ locked_hash' = hash
                    /\ core_last' = VoteOp("prepare", sender, hash, dup, <<Commit(hash)>>)
                    /\ UNCHANGED state
               ELSE
                    /\ core_last' = VoteOp("prepare", sender, hash, dup, <<>>)
                    /\ UNCHANGED <<state, locked_hash>>
    /\ UNCHANGED <<height, round, pending_request, core_panicked, cluster>>
    /\ UNCHANGED <<slotVars, netVars>>

NextVote ==
    \/ HandlePreprepare
    \/ HandlePrepare

(***************************************************************************)
(* The honest delegates of one (height, round), counted by phase and hash. *)
(* The other f delegates are Byzantine, the slot's proposer among them:    *)
(* an honest delegate may be sent a Preprepare for either hash, and every  *)
(* Byzantine delegate's Prepare and Commit on any hash is there to count.  *)
(***************************************************************************)
Honest == DELEGATES - byzantine_f(DELEGATES)

Idle == <<"AcceptRequest", NoHash>>

Categories ==
    {Idle} \cup ({"Preprepared", "Prepared", "Committed", "Finalized"} \X VoteHashes)

ClusterIdle == [c \in Categories |-> IF c = Idle THEN Honest ELSE 0]

\* one delegate moves from category a to category b
Move(a, b) == cluster' = [cluster EXCEPT ![a] = @ - 1, ![b] = @ + 1]

\* the honest delegates that have broadcast Prepare(h)
prepares_sent(h) ==
    cluster[<<"Preprepared", h>>] + cluster[<<"Prepared", h>>]
        + cluster[<<"Committed", h>>] + cluster[<<"Finalized", h>>]

\* the honest delegates that have broadcast Commit(h)
commits_sent(h) ==
    cluster[<<"Prepared", h>>] + cluster[<<"Committed", h>>]
        + cluster[<<"Finalized", h>>]

\* AcceptRequest --(valid Preprepare from proposer)--> send Prepare, Preprepared
ClusterPreprepare ==
    /\ \E h \in VoteHashes :
        /\ cluster[Idle] > 0
        /\ Move(Idle, <<"Preprepared", h>>)
    /\ UNCHANGED <<prepares, locked_hash>>
    /\ UNCHANGED <<coreVars, slotVars, netVars>>

\* Preprepared --(|prepares| >= 2f+1 on same hash)--> send Commit, Prepared
ClusterPrepared ==
    /\ \E h \in VoteHashes :
        /\ cluster[<<"Preprepared", h>>] > 0
        /\ prepares_sent(h) + byzantine_f(DELEGATES) >= quorum(DELEGATES)
        /\ Move(<<"Preprepared", h>>, <<"Prepared", h>>)
    /\ UNCHANGED <<prepares, locked_hash>>
    /\ UNCHANGED <<coreVars, slotVars, netVars>>

\* Prepared --(|commits| >= 2f+1 on same hash)--> Committed
ClusterCommitted ==
    /\ \E h \in VoteHashes :
        /\ cluster[<<"Prepared", h>>] > 0
        /\ commits_sent(h) + byzantine_f(DELEGATES) >= quorum(DELEGATES)
        /\ Move(<<"Prepared", h>>, <<"Committed", h>>)
    /\ UNCHANGED <<prepares, locked_hash>>
    /\ UNCHANGED <<coreVars, slotVars, netVars>>

\* Committed --(block finalised by chain)--> Finalized
ClusterFinalized ==
    /\ \E h \in VoteHashes :
        /\ cluster[<<"Committed", h>>] > 0
        /\ Move(<<"Committed", h>>, <<"Finalized", h>>)
    /\ UNCHANGED <<prepares, locked_hash>>
    /\ UNCHANGED <<coreVars, slotVars, netVars>>

NextAgreement ==
    \/ ClusterPreprepare
    \/ ClusterPrepared
    \/ ClusterCommitted
    \/ ClusterFinalized

(***************************************************************************)
(* p2p server: src/p2p/server.rs                                           *)
(***************************************************************************)
LIVENESS_SECS == 3
CACHE_EXPIRY_SECS == 5

MaxTime == MaxSec * TicksPerSec
MsPerTick == 1000 \div TicksPerSec

LocalId == "self"
ZERO_PEER == "zero"
PeerIds == {"self", "p1", "p2"}
BoundTypes == {"InBound", "OutBound"}
LocalGenesis == "genesis"
Geneses == {"genesis", "foreign"}
Payloads == {"x"}
AddrLists == {<<>>, <<"/ip4/tcp">>}
NoPeer == "none"

\* DateTime::timestamp(): whole seconds
timestamp(t) == t \div TicksPerSec

\* DateTime::timestamp_millis()
timestamp_millis(t) == t * MsPerTick

\* RawMessage: RawHeader (code, create_time, peer_id) and payload
RawMessage(code, create_time, peer_id, payload) ==
    [code |-> code, create_time |-> create_time, peer_id |-> peer_id,
     payload |-> payload]

NoMsg == RawMessage("none", 0, NoPeer, "none")

\* SessionEvent::Stop
StopEvent == RawMessage("Stop", 0, NoPeer, "none")

\* RawMessage::hash(): the digest of the message, one value per message
hash(msg) == msg

NetOp(op, peer, pid, bound, genesis, msg, result) ==
    [op |-> op, peer |-> peer, pid |-> pid, bound |-> bound, genesis |-> genesis,
     msg |-> msg, addrs |-> <<>>, result |-> result]

NetEvent(op) == NetOp(op, NoPeer, 0, "none", "none", NoMsg, "None")

\* do_send of item to each session of pids
Deliver(box, pids, item) ==
    [i \in DOMAIN box |-> IF i \in pids THEN Append(box[i], item) ELSE box[i]]

\* Session::create: a new session actor
NewSession(bound, peer) == [bound |-> bound, peer |-> peer, st |-> "new"]

\* a session that has stopped
Closed(session) == [bound |-> session.bound, peer |-> ZERO_PEER, st |-> "closed"]

\* an authorisation predicate that accepts every handshake
author_handshake_any(genesis, hs) == TRUE

\* author_handshake(genesis)
author_handshake(genesis, hs) == hs.genesis = genesis

\* handle_handshake: Ok or the error
handshake_result_no_dup_check(ps, hs) ==
    IF LocalId = hs.peer_id THEN "HandShakeFailed"
    ELSE IF ~author_handshake(LocalGenesis, hs) THEN "DifferentGenesis"
    ELSE "Ok"

handshake_result(ps, hs) ==
    IF hs.peer_id \in DOMAIN ps THEN "DumpConnected"
    ELSE IF LocalId = hs.peer_id THEN "HandShakeFailed"
    ELSE IF ~author_handshake(LocalGenesis, hs) THEN "DifferentGenesis"
    ELSE "Ok"

\* ConnectInfo::new as handle_handshake calls it
connect_info(t, bound_type, pid) ==
    [connect_time |-> t, bound_type |-> "InBound", pid |-> pid]

\* self.peers.entry(peer_id).or_insert(connect_info)
or_insert(ps, peer_id, info) ==
    IF peer_id \in DOMAIN ps THEN ps
    ELSE [q \in DOMAIN ps \cup {peer_id} |-> IF q = peer_id THEN info ELSE ps[q]]

\* self.peers.remove(peer_id)
remove(ps, gone) == [q \in DOMAIN ps \ gone |-> ps[q]]

\* TcpServer::broadcast: the sessions msg is sent to
broadcast_flood_always(ps, msg) == {ps[q].pid : q \in DOMAIN ps}

broadcast(ps, msg) ==
    IF msg.peer_id # NoPeer
    THEN {ps[q].pid : q \in DOMAIN ps \cap {msg.peer_id}}
    ELSE {ps[q].pid : q \in DOMAIN ps}

\* the sweep's test of one registry entry
sweep_expired_ge(t, info) == timestamp(t) - timestamp(info.connect_time) >= LIVENESS_SECS

\* a threshold one second short: the age of an entry that pings every 2 s
sweep_expired_early(t, info) ==
    timestamp(t) - timestamp(info.connect_time) >= LIVENESS_SECS - 1

sweep_expired(t, info) == timestamp(t) - timestamp(info.connect_time) > LIVENESS_SECS

\* the clock-skew test of ServerEvent::Message
from_future_le(t, msg) == timestamp_millis(t) <= msg.create_time

from_future(t, msg) == timestamp_millis(t) < msg.create_time

\* self.cache.get(&hash): entries older than the expiry are dropped first
cache_live(c, t) == {e \in c : t - e.at < CACHE_EXPIRY_SECS * TicksPerSec}

cache_get(c, t, h) == \E e \in cache_live(c, t) : e.hash = h

\* add_peer: TRUE when it returns at once
add_peer_known(ps, remote_id) == remote_id \in DOMAIN ps

\* ---- actions ----

\* The wall clock advances.
Tick ==
    /\ ~net_panicked
    /\ now < MaxTime
    /\ now' = now + 1
    /\ net_last' = NetEvent("Tick")
    /\ UNCHANGED <<peers, cache, sessions, outbox, dials, handled, n_publish, net_panicked>>
    /\ UNCHANGED notNet

\* Handler<TcpConnectInBound>
TcpConnectInBound ==
    /\ ~net_panicked
    /\ Len(sessions) < MaxSessions
    /\ sessions' = Append(sessions, NewSession("InBound", ZERO_PEER))
    /\ outbox' = Append(outbox, <<>>)
    /\ net_last' = NetOp("TcpConnectInBound", NoPeer, Len(sessions) + 1, "InBound",
                         "none", NoMsg, "None")
    /\ UNCHANGED <<now, peers, cache, dials, handled, n_publish, net_panicked>>
    /\ UNCHANGED notNet

\* Handler<TcpConnectOutBound>
TcpConnectOutBound ==
    /\ ~net_panicked
    /\ \E p \in PeerIds :
        IF p \in DOMAIN peers THEN
            \* msg.0.shutdown(..); return
            /\ net_last' = NetOp("TcpConnectOutBound", p, 0, "OutBound", "none",
                                 NoMsg, "Shutdown")
            /\ UNCHANGED <<sessions, outbox>>
        ELSE
            /\ Len(sessions) < MaxSessions
            /\ sessions' = Append(sessions, NewSession("OutBound", p))
            /\ outbox' = Append(outbox, <<>>)
            /\ net_last' = NetOp("TcpConnectOutBound", p, Len(sessions) + 1,
                                 "OutBound", "none", NoMsg, "Created")
    /\ UNCHANGED <<now, peers, cache, dials, handled, n_publish, net_panicked>>
    /\ UNCHANGED notNet

\* Handler<P2PEvent>, AddPeer: add_peer(remote_id, remote_addresses)
AddPeer ==
    /\ ~net_panicked
    /\ \E p \in PeerIds, addrs \in AddrLists :
        IF add_peer_known(peers, p) THEN
            /\ net_last' = [NetOp("AddPeer", p, 0, "none", "none", NoMsg, "Known")
                                EXCEPT !.addrs = addrs]
            /\ UNCHANGED <<dials, net_panicked>>
        ELSE IF addrs = <<>> THEN
            \* remote_addresses[0] is out of bounds
            /\ net_panicked' = TRUE
            /\ net_last' = [NetOp("AddPeer", p, 0, "none", "none", NoMsg, "Panic")
                                EXCEPT !.addrs = addrs]
            /\ UNCHANGED dials
        ELSE
            /\ Len(dials) < MaxDials
            /\ dials' = Append(dials, [peer |-> p, addr |-> addrs[1]])
            /\ net_last' = [NetOp("AddPeer", p, 0, "none", "none", NoMsg, "Dial")
                                EXCEPT !.addrs = addrs]
            /\ UNCHANGED net_panicked
    /\ UNCHANGED <<now, peers, cache, sessions, outbox, handled, n_publish>>
    /\ UNCHANGED notNet

\* Handler<P2PEvent>, DropPeer: drop_peer does nothing
DropPeer ==
    /\ ~net_panicked
    /\ net_last' = NetEvent("DropPeer")
    /\ UNCHANGED <<now, peers, cache, sessions, outbox, dials, handled, n_publish,
                   net_panicked>>
    /\ UNCHANGED notNet

\* TcpDial::new, the connect succeeds: a session is created
DialConnected ==
    /\ ~net_panicked
    /\ \E i \in DOMAIN dials :
        /\ Len(sessions) < MaxSessions
        /\ dials' = SubSeq(dials, 1, i - 1) \o SubSeq(dials, i + 1, Len(dials))
        /\ sessions' = Append(sessions, NewSession("OutBound", dials[i].peer))
        /\ outbox' = Append(outbox, <<>>)
        /\ net_last' = NetOp("DialConnected", dials[i].peer, Len(sessions) + 1,
                             "OutBound", "none", NoMsg, "Created")
    /\ UNCHANGED <<now, peers, cache, handled, n_publish, net_panicked>>
    /\ UNCHANGED notNet

\* TcpDial::new, the connect fails: the error is logged
DialFailed ==
    /\ ~net_panicked
    /\ \E i \in DOMAIN dials :
        /\ dials' = SubSeq(dials, 1, i - 1) \o SubSeq(dials, i + 1, Len(dials))
        /\ net_last' = NetOp("DialFailed", dials[i].peer, 0, "OutBound", "none",
                             NoMsg, "None")
    /\ UNCHANGED <<now, peers, cache, sessions, outbox, handled, n_publish, net_panicked>>
    /\ UNCHANGED notNet

Handshakes == [peer_id : PeerIds, genesis : Geneses]

\* Handler<ServerEvent>, Connected: handle_handshake(bound_type, pid, payload)
Connected ==
    /\ ~net_panicked
    /\ \E pid \in DOMAIN sessions, hs \in Handshakes :
        /\ sessions[pid].st = "new"
        /\ LET res == handshake_result(peers, hs)
               bound == sessions[pid].bound
           IN
            /\ net_last' = NetOp("Connected", hs.peer_id, pid, bound, hs.genesis,
                                 NoMsg, res)
            /\ IF res = "Ok" THEN
                    /\ peers' = or_insert(peers, hs.peer_id, connect_info(now, bound, pid))
                    /\ sessions' = [sessions EXCEPT ![pid].st = "up",
                                                    ![pid].peer = hs.peer_id]
               ELSE
                    /\ sessions' = [sessions EXCEPT ![pid] = Closed(sessions[pid])]
                    /\ UNCHANGED peers
    /\ UNCHANGED <<now, cache, outbox, dials, handled, n_publish, net_panicked>>
    /\ UNCHANGED notNet

\* Handler<ServerEvent>, Disconnected
Disconnected ==
    /\ ~net_panicked
    /\ \E pid \in DOMAIN sessions :
        /\ sessions[pid].st = "up"
        /\ peers' = remove(peers, {sessions[pid].peer})
        /\ sessions' = [sessions EXCEPT ![pid] = Closed(sessions[pid])]
        /\ net_last' = NetOp("Disconnected", sessions[pid].peer, pid, "none", "none",
                             NoMsg, "Ok")
    /\ UNCHANGED <<now, cache, outbox, dials, handled, n_publish, net_panicked>>
    /\ UNCHANGED notNet

\* Handler<ServerEvent>, Ping
Ping ==
    /\ ~net_panicked
    /\ \E pid \in DOMAIN sessions :
        /\ sessions[pid].st = "up"
        /\ LET p == sessions[pid].peer IN
           IF p \in DOMAIN peers THEN
                /\ peers' = [peers EXCEPT ![p].connect_time = now]
                /\ net_last' = NetOp("Ping", p, pid, "none", "none", NoMsg, "Ok")
                /\ UNCHANGED net_panicked
           ELSE
                \* self.peers.get_mut(peer_id).unwrap() on None
                /\ net_panicked' = TRUE
                /\ net_last' = NetOp("Ping", p, pid, "none", "none", NoMsg, "Panic")
                /\ UNCHANGED peers
    /\ UNCHANGED <<now, cache, sessions, outbox, dials, handled, n_publish>>
    /\ UNCHANGED notNet

\* The messages a peer may send at time t: created just before, at, or just
\* after the receiver's clock reading (in ms).
Received(t) ==
    {RawMessage("Consensus", ct, NoPeer, payload) :
        ct \in {timestamp_millis(t) - 1, timestamp_millis(t), timestamp_millis(t) + 1}
               \cap Nat,
        payload \in Payloads}

\* Handler<ServerEvent>, Message
Message ==
    /\ ~net_panicked
    /\ \E pid \in DOMAIN sessions, raw_msg \in Received(now) :
        /\ sessions[pid].st = "up"
        /\ LET p == sessions[pid].peer
               h == hash(raw_msg)
           IN
           IF from_future(now, raw_msg) THEN
                /\ net_last' = NetOp("Message", p, pid, "none", "none", raw_msg, "SkipTimeout")
                /\ UNCHANGED <<cache, handled>>
           ELSE IF cache_get(cache, now, h) THEN
                /\ cache' = cache_live(cache, now)
                /\ net_last' = NetOp("Message", p, pid, "none", "none", raw_msg, "SkipReceived")
                /\ UNCHANGED handled
           ELSE
                \* (self.handles)(peer_id, raw_msg)
                /\ Len(handled) < MaxHandled
                /\ cache' = cache_live(cache, now)
                /\ handled' = Append(handled, [peer |-> p, hash |-> h, at |-> now])
                /\ net_last' = NetOp("Message", p, pid, "none", "none", raw_msg, "Handled")
    /\ UNCHANGED <<now, peers, sessions, outbox, dials, n_publish, net_panicked>>
    /\ UNCHANGED notNet

\* The run_interval(3 s) callback of started: the liveness sweep
Sweep ==
    /\ ~net_panicked
    /\ LET gone == {q \in DOMAIN peers : sweep_expired(now, peers[q])} IN
        /\ peers' = remove(peers, gone)
        /\ outbox' = Deliver(outbox, {peers[q].pid : q \in gone}, StopEvent)
    /\ net_last' = NetEvent("Sweep")
    /\ UNCHANGED <<now, cache, sessions, dials, handled, n_publish, net_panicked>>
    /\ UNCHANGED notNet

\* Handler<BroadcastEvent>, Consensus
BroadcastConsensus ==
    /\ ~net_panicked
    /\ n_publish < MaxPublish
    /\ \E payload \in Payloads :
        LET msg == RawMessage("Consensus", timestamp_millis(now), NoPeer, payload) IN
        /\ outbox' = Deliver(outbox, broadcast(peers, msg), msg)
        /\ net_last' = NetOp("BroadcastConsensus", NoPeer, 0, "none", "none", msg, "None")
    /\ n_publish' = n_publish + 1
    /\ UNCHANGED <<now, peers, cache, sessions, dials, handled, net_panicked>>
    /\ UNCHANGED notNet

\* Handler<BroadcastEvent>, Blocks
BroadcastBlocks ==
    /\ ~net_panicked
    /\ n_publish < MaxPublish
    /\ \E peer_id \in PeerIds \cup {NoPeer}, payload \in Payloads :
        LET msg == RawMessage("Block", timestamp_millis(now), peer_id, payload) IN
        /\ outbox' = Deliver(outbox, broadcast(peers, msg), msg)
        /\ net_last' = NetOp("BroadcastBlocks", peer_id, 0, "none", "none", msg, "None")
    /\ n_publish' = n_publish + 1
    /\ UNCHANGED <<now, peers, cache, sessions, dials, handled, net_panicked>>
    /\ UNCHANGED notNet

\* Sync built without a peer_id in its header
BroadcastSyncUnaddressed ==
    /\ ~net_panicked
    /\ n_publish < MaxPublish
    /\ \E payload \in Payloads :
        IF DOMAIN peers = {} THEN
            /\ net_last' = NetOp("BroadcastSync", NoPeer, 0, "none", "none", NoMsg, "None")
            /\ UNCHANGED outbox
        ELSE \E peer_id \in DOMAIN peers :
            LET msg == RawMessage("Sync", timestamp_millis(now), NoPeer, payload) IN
            /\ outbox' = Deliver(outbox, broadcast(peers, msg), msg)
            /\ net_last' = NetOp("BroadcastSync", peer_id, 0, "none", "none", msg, "None")
    /\ n_publish' = n_publish + 1
    /\ UNCHANGED <<now, peers, cache, sessions, dials, handled, net_panicked>>
    /\ UNCHANGED notNet

\* Handler<BroadcastEvent>, Sync: self.peers.keys().take(1)
BroadcastSync ==
    /\ ~net_panicked
    /\ n_publish < MaxPublish
    /\ \E payload \in Payloads :
        IF DOMAIN peers = {} THEN
            /\ net_last' = NetOp("BroadcastSync", NoPeer, 0, "none", "none", NoMsg, "None")
            /\ UNCHANGED outbox
        ELSE \E peer_id \in DOMAIN peers :
            LET msg == RawMessage("Sync", timestamp_millis(now), peer_id, payload) IN
            /\ outbox' = Deliver(outbox, broadcast(peers, msg), msg)
            /\ net_last' = NetOp("BroadcastSync", peer_id, 0, "none", "none", msg, "None")
    /\ n_publish' = n_publish + 1
    /\ UNCHANGED <<now, peers, cache, sessions, dials, handled, net_panicked>>
    /\ UNCHANGED notNet

\* ---- the timers: the sweep of the server and the ping of a session ----

\* ctx.run_interval(Duration::from_secs(3), ..) of started: the sweep period
SWEEP_SECS == 3

\* The ping interval of a session (default 2 s)
PING_SECS == 2

MaxTimerTime == MaxTimerSec * TicksPerSec

\* The interval timer of started fires at t: every SWEEP_SECS after started_at
sweep_due(t) ==
    /\ t > started_at
    /\ (t - started_at) % (SWEEP_SECS * TicksPerSec) = 0

\* The ping timer of the session behind an entry fires at t: PING_SECS after
\* the handshake or the last Ping
ping_due(t, info) == t - info.connect_time >= PING_SECS * TicksPerSec

\* The sessions that still ping and whose ping is due at t
pings_due(t) ==
    {pid \in DOMAIN sessions :
        /\ sessions[pid].st = "up"
        /\ sessions[pid].peer \in DOMAIN peers
        /\ ping_due(t, peers[sessions[pid].peer])}

\* The wall clock advances once every timer due at this instant has fired.
TimerTick ==
    /\ ~net_panicked
    /\ now < MaxTimerTime
    /\ sweep_due(now) => net_last.op = "Sweep"
    /\ pings_due(now) = {}
    /\ now' = now + 1
    /\ net_last' = NetEvent("Tick")
    /\ UNCHANGED <<peers, cache, sessions, outbox, dials, handled, n_publish, net_panicked>>
    /\ UNCHANGED notNet

\* The sweep, run by its interval timer
TimerSweep ==
    /\ sweep_due(now)
    /\ Sweep

\* A Ping reaches the server when the session's ping timer fires
TimerPing ==
    /\ pings_due(now) # {}
    /\ Ping
    /\ net_last'.pid \in pings_due(now)

\* A peer connects: its handshake is accepted and its session starts to ping
TimerConnected ==
    /\ Connected
    /\ net_last'.result = "Ok"

\* A session stops pinging (its peer hangs); nothing reaches the server
StopPinging ==
    /\ ~net_panicked
    /\ \E pid \in DOMAIN sessions :
        /\ sessions[pid].st = "up"
        /\ sessions' = [sessions EXCEPT ![pid].st = "silent"]
        /\ net_last' = NetOp("StopPinging", sessions[pid].peer, pid, "none", "none",
                             NoMsg, "None")
    /\ UNCHANGED <<now, peers, cache, outbox, dials, handled, n_publish, net_panicked>>
    /\ UNCHANGED notNet

\* The peer registry alone: connections, handshakes, pings and the sweep.
NextRegistry ==
    \/ Tick
    \/ TcpConnectInBound
    \/ TcpConnectOutBound
    \/ AddPeer
    \/ DropPeer
    \/ DialConnected
    \/ DialFailed
    \/ Connected
    \/ Disconnected
    \/ Ping
    \/ Sweep

InitRegistry ==
    /\ height = 0
    /\ round = 0
    /\ state = "AcceptRequest"
    /\ pending_request = <<>>
    /\ core_panicked = FALSE
    /\ core_last = CoreIdle
    /\ prepares = NoVotes
    /\ locked_hash = NoHash
    /\ cluster = ClusterIdle
    /\ clock = begin_epoch_time
    /\ slot_last = SlotIdle
    /\ now = 0
    /\ peers = <<>>
    /\ cache = {}
    /\ sessions = <<>>
    /\ outbox = <<>>
    /\ dials = <<>>
    /\ handled = <<>>
    /\ n_publish = 0
    /\ net_panicked = FALSE
    /\ net_last = NetEvent("init")
    /\ started_at = 0

SpecRegistry == InitRegistry /\ [][NextRegistry]_vars

\* The life of the registry entries: the events that create, refresh and
\* remove them.
NextEntries ==
    \/ Tick
    \/ AddPeer
    \/ DialConnected
    \/ Connected
    \/ Disconnected
    \/ Ping
    \/ Sweep

InitEntries ==
    /\ height = 0
    /\ round = 0
    /\ state = "AcceptRequest"
    /\ pending_request = <<>>
    /\ core_panicked = FALSE
    /\ core_last = CoreIdle
    /\ prepares = NoVotes
    /\ locked_hash = NoHash
    /\ cluster = ClusterIdle
    /\ clock = begin_epoch_time
    /\ slot_last = SlotIdle
    /\ now = 0
    /\ peers = <<>>
    /\ cache = {}
    /\ sessions = <<>>
    /\ outbox = <<>>
    /\ dials = <<>>
    /\ handled = <<>>
    /\ n_publish = 0
    /\ net_panicked = FALSE
    /\ net_last = NetEvent("init")
    /\ started_at = 0

SpecEntries == InitEntries /\ [][NextEntries]_vars

\* The sweep timer against the ping timers of the sessions; the server may
\* start at any instant within a second.
NextTimers ==
    \/ TimerTick
    \/ TcpConnectInBound
    \/ TimerConnected
    \/ TimerPing
    \/ StopPinging
    \/ TimerSweep

InitTimers ==
    /\ height = 0
    /\ round = 0
    /\ state = "AcceptRequest"
    /\ pending_request = <<>>
    /\ core_panicked = FALSE
    /\ core_last = CoreIdle
    /\ prepares = NoVotes
    /\ locked_hash = NoHash
    /\ cluster = ClusterIdle
    /\ clock = begin_epoch_time
    /\ slot_last = SlotIdle
    /\ now \in 0 .. TicksPerSec - 1
    /\ peers = <<>>
    /\ cache = {}
    /\ sessions = <<>>
    /\ outbox = <<>>
    /\ dials = <<>>
    /\ handled = <<>>
    /\ n_publish = 0
    /\ net_panicked = FALSE
    /\ net_last = NetEvent("init")
    /\ started_at = now

SpecTimers == InitTimers /\ [][NextTimers]_vars

\* Connections: dials, sessions and handshakes, at one instant.
NextConnect ==
    \/ TcpConnectInBound
    \/ TcpConnectOutBound
    \/ AddPeer
    \/ DropPeer
    \/ DialConnected
    \/ DialFailed
    \/ Connected
    \/ Disconnected

InitConnect ==
    /\ height = 0
    /\ round = 0
    /\ state = "AcceptRequest"
    /\ pending_request = <<>>
    /\ core_panicked = FALSE
    /\ core_last = CoreIdle
    /\ prepares = NoVotes
    /\ locked_hash = NoHash
    /\ cluster = ClusterIdle
    /\ clock = begin_epoch_time
    /\ slot_last = SlotIdle
    /\ now = 0
    /\ peers = <<>>
    /\ cache = {}
    /\ sessions = <<>>
    /\ outbox = <<>>
    /\ dials = <<>>
    /\ handled = <<>>
    /\ n_publish = 0
    /\ net_panicked = FALSE
    /\ net_last = NetEvent("init")
    /\ started_at = 0

SpecConnect == InitConnect /\ [][NextConnect]_vars

\* Liveness of the registry entries: handshakes, pings and the sweep over time.
NextLiveness ==
    \/ Tick
    \/ TcpConnectInBound
    \/ Connected
    \/ Disconnected
    \/ Ping
    \/ Sweep

InitLiveness ==
    /\ height = 0
    /\ round = 0
    /\ state = "AcceptRequest"
    /\ pending_request = <<>>
    /\ core_panicked = FALSE
    /\ core_last = CoreIdle
    /\ prepares = NoVotes
    /\ locked_hash = NoHash
    /\ cluster = ClusterIdle
    /\ clock = begin_epoch_time
    /\ slot_last = SlotIdle
    /\ now = 0
    /\ peers = <<>>
    /\ cache = {}
    /\ sessions = <<>>
    /\ outbox = <<>>
    /\ dials = <<>>
    /\ handled = <<>>
    /\ n_publish = 0
    /\ net_panicked = FALSE
    /\ net_last = NetEvent("init")
    /\ started_at = 0

SpecLiveness == InitLiveness /\ [][NextLiveness]_vars

\* The broadcast plane, sending: publishes over the registry the handshakes build.
NextPublish ==
    \/ TcpConnectInBound
    \/ Connected
    \/ BroadcastConsensus
    \/ BroadcastBlocks
    \/ BroadcastSync

InitPublish ==
    /\ height = 0
    /\ round = 0
    /\ state = "AcceptRequest"
    /\ pending_request = <<>>
    /\ core_panicked = FALSE
    /\ core_last = CoreIdle
    /\ prepares = NoVotes
    /\ locked_hash = NoHash
    /\ cluster = ClusterIdle
    /\ clock = begin_epoch_time
    /\ slot_last = SlotIdle
    /\ now = 0
    /\ peers = <<>>
    /\ cache = {}
    /\ sessions = <<>>
    /\ outbox = <<>>
    /\ dials = <<>>
    /\ handled = <<>>
    /\ n_publish = 0
    /\ net_panicked = FALSE
    /\ net_last = NetEvent("init")
    /\ started_at = 0

SpecPublish == InitPublish /\ [][NextPublish]_vars

\* The broadcast plane, receiving: messages from the connected peers.
NextReceive ==
    \/ TcpConnectInBound
    \/ Connected
    \/ Message

InitReceive ==
    /\ height = 0
    /\ round = 0
    /\ state = "AcceptRequest"
    /\ pending_request = <<>>
    /\ core_panicked = FALSE
    /\ core_last = CoreIdle
    /\ prepares = NoVotes
    /\ locked_hash = NoHash
    /\ cluster = ClusterIdle
    /\ clock = begin_epoch_time
    /\ slot_last = SlotIdle
    /\ now \in 0..MaxTime
    /\ peers = <<>>
    /\ cache = {}
    /\ sessions = <<>>
    /\ outbox = <<>>
    /\ dials = <<>>
    /\ handled = <<>>
    /\ n_publish = 0
    /\ net_panicked = FALSE
    /\ net_last = NetEvent("init")
    /\ started_at = 0

SpecReceive == InitReceive /\ [][NextReceive]_vars

\* Core::new: idle at height 0
InitCore ==
    /\ height = 0
    /\ round = 0
    /\ state = "AcceptRequest"
    /\ pending_request = <<>>
    /\ core_panicked = FALSE
    /\ core_last = CoreIdle
    /\ prepares = NoVotes
    /\ locked_hash = NoHash
    /\ cluster = ClusterIdle
    /\ clock = begin_epoch_time
    /\ slot_last = SlotIdle
    /\ now = 0
    /\ peers = <<>>
    /\ cache = {}
    /\ sessions = <<>>
    /\ outbox = <<>>
    /\ dials = <<>>
    /\ handled = <<>>
    /\ n_publish = 0
    /\ net_panicked = FALSE
    /\ net_last = NetEvent("init")
    /\ started_at = 0

SpecCore == InitCore /\ [][NextCore]_vars

\* the clock at any reading around the epoch origin
InitSlot ==
    /\ height = 0
    /\ round = 0
    /\ state = "AcceptRequest"
    /\ pending_request = <<>>
    /\ core_panicked = FALSE
    /\ core_last = CoreIdle
    /\ prepares = NoVotes
    /\ locked_hash = NoHash
    /\ cluster = ClusterIdle
    /\ clock \in ClockRange
    /\ slot_last = SlotIdle
    /\ now = 0
    /\ peers = <<>>
    /\ cache = {}
    /\ sessions = <<>>
    /\ outbox = <<>>
    /\ dials = <<>>
    /\ handled = <<>>
    /\ n_publish = 0
    /\ net_panicked = FALSE
    /\ net_last = NetEvent("init")
    /\ started_at = 0

SpecSlot == InitSlot /\ [][NextSlot]_vars

\* no round computed yet
InitRound ==
    /\ height = 0
    /\ round = 0
    /\ state = "AcceptRequest"
    /\ pending_request = <<>>
    /\ core_panicked = FALSE
    /\ core_last = CoreIdle
    /\ prepares = NoVotes
    /\ locked_hash = NoHash
    /\ cluster = ClusterIdle
    /\ clock = begin_epoch_time
    /\ slot_last = SlotIdle
    /\ now = 0
    /\ peers = <<>>
    /\ cache = {}
    /\ sessions = <<>>
    /\ outbox = <<>>
    /\ dials = <<>>
    /\ handled = <<>>
    /\ n_publish = 0
    /\ net_panicked = FALSE
    /\ net_last = NetEvent("init")
    /\ started_at = 0

SpecRound == InitRound /\ [][NextRound]_vars

\* every honest delegate in AcceptRequest, at the start of a (height, round)
InitAgreement ==
    /\ height = 0
    /\ round = 0
    /\ state = "AcceptRequest"
    /\ pending_request = <<>>
    /\ core_panicked = FALSE
    /\ core_last = CoreIdle
    /\ prepares = NoVotes
    /\ locked_hash = NoHash
    /\ cluster = ClusterIdle
    /\ clock = begin_epoch_time
    /\ slot_last = SlotIdle
    /\ now = 0
    /\ peers = <<>>
    /\ cache = {}
    /\ sessions = <<>>
    /\ outbox = <<>>
    /\ dials = <<>>
    /\ handled = <<>>
    /\ n_publish = 0
    /\ net_panicked = FALSE
    /\ net_last = NetEvent("init")
    /\ started_at = 0

SpecAgreement == InitAgreement /\ [][NextAgreement]_vars

\* the core after warm-up: height 1, round 0, AcceptRequest, no vote held
InitVote ==
    /\ height = 1
    /\ round = 0
    /\ state = "AcceptRequest"
    /\ pending_request = <<>>
    /\ core_panicked = FALSE
    /\ core_last = CoreIdle
    /\ prepares = NoVotes
    /\ locked_hash = NoHash
    /\ cluster = ClusterIdle
    /\ clock = begin_epoch_time
    /\ slot_last = SlotIdle
    /\ now = 0
    /\ peers = <<>>
    /\ cache = {}
    /\ sessions = <<>>
    /\ outbox = <<>>
    /\ dials = <<>>
    /\ handled = <<>>
    /\ n_publish = 0
    /\ net_panicked = FALSE
    /\ net_last = NetEvent("init")
    /\ started_at = 0

SpecVote == InitVote /\ [][NextVote]_vars

(***************************************************************************)
(* Claims about the consensus core (checked under SpecCore).               *)
(***************************************************************************)

\* C1: check_request_message classifies a Request against the current height
\* in this order: WaitNewRound at height 0 whatever the block height;
\* otherwise OldMessage for a lower block height (5 at 7), FutureMessage for a
\* higher one (9 at 7), and Ok only for an equal one.
C1_Classification ==
    core_last.op = "handle" =>
        LET bh == core_last.proposal.height
            res == core_last.check
        IN  /\ (height = 0 => res = "WaitNewRound")
            /\ (height # 0 /\ bh < height => res = "OldMessage")
            /\ (height # 0 /\ bh > height => res = "FutureMessage")
            /\ (res = "Ok" <=> (height # 0 /\ bh = height))
            /\ (height = 7 /\ bh = 5 => res = "OldMessage")
            /\ (height = 7 /\ bh = 9 => res = "FutureMessage")

C1_Witness ==
    /\ core_last.op = "handle"
    /\ height = 7
    /\ core_last.proposal.height = 9
    /\ core_last.check = "FutureMessage"

\* C2: a Request that passes the check while the core is in AcceptRequest
\* leaves pending_request holding exactly that request's proposal (a request
\* buffered before is replaced), hands exactly one Preprepare for it to the
\* broadcast plane and moves the core to Preprepared.
C2_AcceptedRequest ==
    (/\ core_last.op = "handle"
     /\ core_last.prev_state = "AcceptRequest"
     /\ core_last.check = "Ok")
    =>  /\ pending_request = <<core_last.proposal>>
        /\ Len(core_last.sent) = 1
        /\ core_last.sent[1].kind = "Preprepare"
        /\ core_last.sent[1].proposal = core_last.proposal
        /\ state = "Preprepared"

C2_Witness ==
    /\ core_last.op = "handle"
    /\ core_last.prev_state = "AcceptRequest"
    /\ core_last.check = "Ok"
    /\ core_last.prev_pending # <<>>
    /\ core_last.prev_pending # <<core_last.proposal>>
    /\ pending_request = <<core_last.proposal>>
    /\ state = "Preprepared"

(***************************************************************************)
(* Claims about the p2p server.                                            *)
(***************************************************************************)

\* C3 (SpecPublish): publishing the same message twice results in exactly one
\* send to each connected peer session: no session is sent the same message
\* (same hash) twice.
C3_PublishOnce ==
    \A i \in DOMAIN outbox :
        \A j, k \in DOMAIN outbox[i] :
            (j # k /\ outbox[i][j].code # "Stop") =>
                hash(outbox[i][j]) # hash(outbox[i][k])

\* C4 (SpecReceive): the message handler is invoked at most once per distinct
\* message hash while its dedup-cache entry has not expired, because a receipt
\* whose hash is not in the cache inserts it.
C4_HandledOnce ==
    \A j, k \in DOMAIN handled :
        (j < k /\ handled[j].hash = handled[k].hash) =>
            handled[k].at - handled[j].at >= CACHE_EXPIRY_SECS * TicksPerSec

\* C5 (SpecReceive): clock-skew guard. A received message whose create_time
\* is strictly greater than the receiver's clock (in ms) is rejected: the
\* handler is not invoked and the cache and the peer table are unchanged; a
\* message whose create_time is equal to or less than the clock passes the guard.
C5_ClockSkewGuard ==
    [][ net_last'.op = "Message" =>
          LET m == net_last'.msg IN
            /\ (m.create_time > timestamp_millis(now)) =>
                    /\ net_last'.result = "SkipTimeout"
                    /\ handled' = handled
                    /\ cache' = cache
                    /\ peers' = peers
            /\ (m.create_time <= timestamp_millis(now)) =>
                    net_last'.result \in {"Handled", "SkipReceived"}
      ]_vars

C5_Witness ==
    /\ net_last.op = "Message"
    /\ net_last.msg.create_time = timestamp_millis(now) + 1
    /\ net_last.result = "SkipTimeout"
    /\ Len(handled) > 0
    /\ handled[Len(handled)].hash.create_time = timestamp_millis(now)

\* C6 (SpecPublish): a broadcast message whose header carries a peer_id is
\* sent to that peer's session only (to none if the peer is not registered); one
\* without a peer_id is sent once to every registered peer's session. The
\* registry is not modified.
C6_TargetedOrFlood ==
    [][ (/\ net_last'.op \in {"BroadcastConsensus", "BroadcastBlocks", "BroadcastSync"}
         /\ n_publish' = n_publish + 1) =>
          LET m == net_last'.msg
              targets ==
                IF m = NoMsg THEN {}
                ELSE IF m.peer_id # NoPeer
                     THEN IF m.peer_id \in DOMAIN peers
                          THEN {peers[m.peer_id].pid} ELSE {}
                     ELSE {peers[q].pid : q \in DOMAIN peers}
          IN  /\ peers' = peers
              /\ DOMAIN outbox' = DOMAIN outbox
              /\ \A i \in DOMAIN outbox :
                    outbox'[i] = IF i \in targets THEN Append(outbox[i], m)
                                 ELSE outbox[i]
      ]_vars

C6_Witness ==
    /\ net_last.op = "BroadcastBlocks"
    /\ net_last.msg.peer_id \in DOMAIN peers
    /\ Cardinality(DOMAIN peers) = 2
    /\ \A q \in DOMAIN peers :
        IF q = net_last.msg.peer_id
        THEN outbox[peers[q].pid] = <<net_last.msg>>
        ELSE outbox[peers[q].pid] = <<>>

\* C7 (SpecLiveness): a handshake is rejected, the registry unchanged, when
\* its peer_id is already registered (the duplicate-connection error; the first
\* connection's entry is not replaced), when its peer_id is the local id, or
\* when the authorisation predicate rejects it (genesis mismatch). Only a
\* handshake passing all three checks adds an entry.
C7_HandshakeRejects ==
    [][ net_last'.op = "Connected" =>
          LET p == net_last'.peer
              dup == p \in DOMAIN peers
              own == p = LocalId
              foreign == net_last'.genesis # LocalGenesis
          IN  /\ dup => net_last'.result = "DumpConnected"
              /\ (dup \/ own \/ foreign) =>
                    (net_last'.result # "Ok" /\ peers' = peers)
              /\ ~(dup \/ own \/ foreign) =>
                    /\ net_last'.result = "Ok"
                    /\ DOMAIN peers' = DOMAIN peers \cup {p}
                    /\ peers'[p].pid = net_last'.pid
                    /\ peers'[p].connect_time = now
                    /\ \A q \in DOMAIN peers : peers'[q] = peers[q]
      ]_vars

C7_Witness ==
    /\ net_last.op = "Connected"
    /\ net_last.result = "DumpConnected"
    /\ net_last.peer \in DOMAIN peers
    /\ peers[net_last.peer].pid # net_last.pid
    /\ peers[net_last.peer].connect_time < now

\* C8 (as amended, SpecLiveness): each sweep removes every peer whose
\* last_seen, in whole seconds, is more than 3 s before the clock in whole
\* seconds (timestamp(now) - timestamp(last_seen) > 3) and sends exactly one
\* Stop to each removed peer's session; the other peers are kept and receive no
\* Stop. After a sweep no entry's whole-second age exceeds 3.
C8_SweepWholeSeconds ==
    [][ net_last'.op = "Sweep" =>
          /\ \A q \in DOMAIN peers :
                LET pid == peers[q].pid IN
                IF timestamp(now) - timestamp(peers[q].connect_time) > LIVENESS_SECS
                THEN /\ q \notin DOMAIN peers'
                     /\ outbox'[pid] = Append(outbox[pid], StopEvent)
                ELSE /\ q \in DOMAIN peers'
                     /\ peers'[q] = peers[q]
                     /\ outbox'[pid] = outbox[pid]
          /\ DOMAIN peers' \subseteq DOMAIN peers
          /\ \A q \in DOMAIN peers' :
                timestamp(now) - timestamp(peers'[q].connect_time) <= LIVENESS_SECS
      ]_vars

C8_Witness ==
    /\ net_last.op = "Sweep"
    /\ Cardinality(DOMAIN peers) = 1
    /\ \E pid \in DOMAIN sessions :
        /\ sessions[pid].st = "up"
        /\ sessions[pid].peer \notin DOMAIN peers
        /\ outbox[pid] = <<StopEvent>>
    /\ \E q \in DOMAIN peers : outbox[peers[q].pid] = <<>>

\* C8 as stated: after a sweep no registry entry is older than the liveness
\* threshold of 3 s.
C8_Original ==
    net_last.op = "Sweep" =>
        \A q \in DOMAIN peers :
            now - peers[q].connect_time <= LIVENESS_SECS * TicksPerSec

\* C9 (SpecConnect): add_peer is a no-op when the peer is registered (no dial,
\* registry unchanged); when it is not, add_peer schedules exactly one outbound
\* dial and adds no registry entry.
C9_AddPeer ==
    [][ net_last'.op = "AddPeer" =>
          IF net_last'.peer \in DOMAIN peers
          THEN dials' = dials /\ peers' = peers
          ELSE /\ Len(dials') = Len(dials) + 1
               /\ dials'[Len(dials')].peer = net_last'.peer
               /\ peers' = peers
      ]_vars

(***************************************************************************)
(* Claims about the slot clock (checked under SpecSlot).                   *)
(***************************************************************************)

\* C10 (as amended): for every instant t at or after the epoch origin, the
\* slot of t is (t - epoch_origin) / INTERVAL rounded down, with INTERVAL = 3:
\* origin+3 is slot 1, origin+5 is slot 1, origin+6 is slot 2, and slot s
\* covers exactly the epoch-relative seconds s*INTERVAL .. s*INTERVAL+INTERVAL-1.
C10_SlotFloor ==
    (slot_last.op = "slot" /\ slot_last.time_sec >= begin_epoch_time) =>
        LET e == slot_last.time_sec - begin_epoch_time
            s == slot_last.slot
        IN  /\ 3 * s <= e /\ e <= 3 * s + 2
            /\ slot_last.slot_time = 3 * s
            /\ (e = 3 => s = 1)
            /\ (e = 5 => s = 1)
            /\ (e = 6 => s = 2)

C10_Witness ==
    /\ slot_last.op = "slot"
    /\ slot_last.time_sec = begin_epoch_time + 5
    /\ slot_last.slot = 1
    /\ slot_last.slot_time = 3

\* C10 as stated: for every instant t, before the epoch origin as well, the
\* slot of t is the floor of (t - epoch_origin) / INTERVAL and slot s covers
\* exactly s*INTERVAL .. s*INTERVAL+INTERVAL-1.
C10_Original ==
    slot_last.op = "slot" =>
        LET e == slot_last.time_sec - begin_epoch_time
            s == slot_last.slot
        IN  3 * s <= e /\ e <= 3 * s + 2

\* C11: slot numbering is monotonic. For two instants t1 <= t2 with t1 at or
\* after the epoch origin, slot(t1) <= slot(t2); so next_slot, as two
\* successive calls of get_next_slot return it, never decreases while the wall
\* clock advances.
C11_SlotMonotonic ==
    /\ \A t1, t2 \in ClockRange :
          (begin_epoch_time <= t1 /\ t1 <= t2) =>
              get_slot_number(get_time(t1)) <= get_slot_number(get_time(t2))
    /\ (/\ slot_last.op = "slot"
        /\ slot_last.prev_op = "slot"
        /\ slot_last.prev_time_sec >= begin_epoch_time
        /\ slot_last.prev_time_sec <= slot_last.time_sec)
       => slot_last.prev_next_slot <= slot_last.next_slot

C11_Witness ==
    /\ slot_last.op = "slot"
    /\ slot_last.prev_op = "slot"
    /\ slot_last.prev_time_sec = begin_epoch_time + 2
    /\ slot_last.time_sec = begin_epoch_time + 3
    /\ slot_last.prev_next_slot = 1
    /\ slot_last.next_slot = 2

\* C12 (SpecRound): calc_round(height) is ceil(height / DELEGATES) with
\* DELEGATES = 11 for every height >= 1 (1..11 are round 1, 12..22 round 2,
\* (k-1)*11+1 .. k*11 round k), and calc_round is non-decreasing in height.
C12_CalcRound ==
    slot_last.op = "calc_round" =>
        LET h == slot_last.height
            p == DivSmall(h, 11)
            ceiling == IF p.r > 0 THEN BitsInc(p.q) ELSE p.q
        IN  /\ h # <<>> => slot_last.round = ceiling
            /\ (slot_last.prev_op = "calc_round" /\ BitsLe(slot_last.prev_height, h))
                    => BitsLe(slot_last.prev_round, slot_last.round)

\* C13 (SpecRound): the proposer of slot s at height h is
\* active_delegates(h)[s mod |active_delegates(h)|]; the active delegates are
\* the same ordered 11-element list "a".."k" at every height, so
\* proposer_of(7, 1) is "h" and proposer_of(s, h) = proposer_of(s + 11, h')
\* for all s >= 0 and all heights h, h'.
C13_Proposer ==
    slot_last.op = "proposer" =>
        LET s == slot_last.slot
            list == slot_last.delegates
        IN  /\ list = <<"a", "b", "c", "d", "e", "f", "g", "h", "i", "j", "k">>
            /\ Len(list) = 11
            /\ slot_last.proposer = list[(s % Len(list)) + 1]
            /\ slot_last.proposer2 = slot_last.proposer
            /\ (s = 7 /\ slot_last.height = 1) => slot_last.proposer = "h"

C13_Witness ==
    /\ slot_last.op = "proposer"
    /\ slot_last.slot = 7
    /\ slot_last.height = 1
    /\ slot_last.height2 = 3
    /\ slot_last.proposer = "h"
    /\ slot_last.proposer2 = "h"

(***************************************************************************)
(* Claims about the PBFT votes.                                            *)
(***************************************************************************)

\* C14 (SpecAgreement): agreement. With at most f = floor((N-1)/3) Byzantine
\* delegates among N, no two honest delegates are in Committed (or later) at
\* the same height on different proposal hashes.
C14_Agreement ==
    \A h1, h2 \in VoteHashes :
        (/\ cluster[<<"Committed", h1>>] + cluster[<<"Finalized", h1>>] > 0
         /\ cluster[<<"Committed", h2>>] + cluster[<<"Finalized", h2>>] > 0)
        => h1 = h2

\* C15 (SpecVote): quorum counting is per proposal hash. With 11 delegates
\* (f = 3, Q = 7) a node in Preprepared sends Commit(H) and moves to Prepared
\* exactly when a new prepare makes it hold 7 prepares of distinct senders on
\* H, whatever it holds on H' (3, say): prepares on H' never count toward H.
\* A later prepare on H' that leaves H' below 7 (the 4th) changes neither the
\* Commit(H) sent nor the phase.
C15_QuorumPerHash ==
    [][ core_last'.op = "prepare" =>
          LET h == core_last'.hash
              held == Cardinality({s \in Senders : prepares'[<<s, h>>] > 0})
              new == prepares[<<core_last'.sender, h>>] = 0
          IN  /\ (state = "Preprepared" /\ new /\ held >= 7) =>
                    /\ state' = "Prepared"
                    /\ locked_hash' = h
                    /\ core_last'.sent = <<Commit(h)>>
              /\ (state = "Preprepared" /\ held < 7) =>
                    /\ state' = "Preprepared"
                    /\ locked_hash' = locked_hash
                    /\ core_last'.sent = <<>>
              /\ (state = "Prepared" /\ held < 7) =>
                    /\ state' = "Prepared"
                    /\ locked_hash' = locked_hash
                    /\ core_last'.sent = <<>>
      ]_vars

C15_Witness ==
    /\ core_last.op = "prepare"
    /\ core_last.hash = "H'"
    /\ ~core_last.dup
    /\ core_last.prev_state = "Prepared"
    /\ core_last.prev_locked = "H"
    /\ core_last.sent = <<>>
    /\ state = "Prepared"
    /\ locked_hash = "H"
    /\ Cardinality({s \in Senders : prepares[<<s, "H">>] > 0}) = 7
    /\ Cardinality({s \in Senders : prepares[<<s, "H'">>] > 0}) = 4

\* C16 (SpecVote): duplicate votes are idempotent. Accepting a Prepare the
\* node already holds (same sender, height, round and hash) leaves it in the
\* state it was in: the tally is not counted twice, no error is raised and no
\* further Commit is sent.
C16_DuplicatePrepare ==
    [][ (/\ core_last'.op = "prepare"
         /\ prepares[<<core_last'.sender, core_last'.hash>>] > 0) =>
          /\ prepares' = prepares
          /\ \A v \in DOMAIN prepares : prepares'[v] <= 1
          /\ state' = state
          /\ locked_hash' = locked_hash
          /\ core_last'.sent = <<>>
          /\ core_panicked' = FALSE
      ]_vars

C16_Witness ==
    /\ core_last.op = "prepare"
    /\ core_last.dup
    /\ core_last.hash = "H"
    /\ core_last.sent = <<>>
    /\ core_last.prev_state = "Prepared"
    /\ state = "Prepared"
    /\ locked_hash = "H"
    /\ Cardinality({s \in Senders : prepares[<<s, "H">>] = 1}) = 7

(***************************************************************************)
(* Further claims about the consensus core (SpecCore).                     *)
(***************************************************************************)

\* C17: monotonicity. Along every execution the pair (height, round), in
\* lexicographic order, never decreases; handling a Request, accepted or
\* rejected, changes neither height nor round.
C17_Monotonic ==
    [][ /\ \/ height' > height
           \/ height' = height /\ round' >= round
        /\ core_last'.op = "handle" => (height' = height /\ round' = round)
      ]_vars

C17_Witness ==
    /\ core_last.op = "handle"
    /\ core_last.result = "Ok"
    /\ height = 2
    /\ round = 1
    /\ state = "Preprepared"

\* C18: whenever handle processes a Request that passes
\* check_request_message, the core's phase is AcceptRequest, so the assertion
\* of handle holds, for any sequence of Requests: also for a second Request of
\* the same height delivered after the first was accepted.
C18_AssertHolds ==
    /\ ~core_panicked
    /\ (core_last.op = "handle" /\ core_last.check = "Ok")
            => core_last.prev_state = "AcceptRequest"

\* C19: a Request rejected by the acceptance check (WaitNewRound, OldMessage
\* or FutureMessage) leaves pending_request, phase, height and round as they
\* were, and no Preprepare is sent.
C19_RejectedRequest ==
    [][ (/\ core_last'.op = "handle"
         /\ core_last'.check \in {"WaitNewRound", "OldMessage", "FutureMessage"}) =>
          /\ pending_request' = pending_request
          /\ state' = state
          /\ height' = height
          /\ round' = round
          /\ core_last'.sent = <<>>
          /\ core_last'.result = core_last'.check
      ]_vars

C19_Witness ==
    /\ core_last.op = "handle"
    /\ core_last.check = "OldMessage"
    /\ core_last.sent = <<>>
    /\ core_last.prev_state = "Prepared"
    /\ state = "Prepared"
    /\ pending_request # <<>>
    /\ pending_request = core_last.prev_pending
    /\ pending_request # <<core_last.proposal>>

(***************************************************************************)
(* Further claims about the p2p server.                                    *)
(***************************************************************************)

\* C20 (SpecLiveness): handling Ping(peer_id) is safe in every interleaving
\* of registry events. A Ping for a peer that is not, or no longer, in the
\* registry (queued by a session when the sweep removed the peer, or when its
\* Disconnected was handled) does not fail and leaves the registry unchanged;
\* a Ping for a registered peer updates only that peer's last_seen.
C20_PingSafe ==
    [][ net_last'.op = "Ping" =>
          LET p == net_last'.peer IN
            /\ ~net_panicked'
            /\ net_last'.result = "Ok"
            /\ p \notin DOMAIN peers => peers' = peers
            /\ p \in DOMAIN peers =>
                    peers' = [peers EXCEPT ![p].connect_time = now]
      ]_vars

\* C22 (SpecConnect): the registry entry a successful handshake creates
\* records the bound type passed to the handshake handler: Outbound for an
\* outbound (dialled) session, Inbound for an inbound (accepted) one.
C22_BoundRecorded ==
    (net_last.op = "Connected" /\ net_last.result = "Ok") =>
        /\ net_last.peer \in DOMAIN peers
        /\ peers[net_last.peer].bound_type = net_last.bound

\* C23 (SpecPublish): a BroadcastEvent::Sync produces a Sync message addressed
\* to exactly one peer of the registry and delivered to that peer's session
\* only; with an empty registry no message is sent. A BroadcastEvent::Consensus
\* message carries no peer_id and is sent to every registered peer.
C23_SyncToOnePeer ==
    [][ /\ (net_last'.op = "BroadcastSync" /\ n_publish' = n_publish + 1) =>
              LET m == net_last'.msg IN
              IF DOMAIN peers = {} THEN m = NoMsg /\ outbox' = outbox
              ELSE /\ m.code = "Sync"
                   /\ m.peer_id \in DOMAIN peers
                   /\ \A i \in DOMAIN outbox :
                        outbox'[i] = IF i = peers[m.peer_id].pid
                                     THEN Append(outbox[i], m) ELSE outbox[i]
        /\ (net_last'.op = "BroadcastConsensus" /\ n_publish' = n_publish + 1) =>
              LET m == net_last'.msg IN
              /\ m.code = "Consensus"
              /\ m.peer_id = NoPeer
              /\ \A i \in DOMAIN outbox :
                    outbox'[i] = IF \E q \in DOMAIN peers : peers[q].pid = i
                                 THEN Append(outbox[i], m) ELSE outbox[i]
      ]_vars

C23_Witness ==
    /\ net_last.op = "BroadcastSync"
    /\ net_last.msg.code = "Sync"
    /\ Cardinality(DOMAIN peers) = 2
    /\ net_last.msg.peer_id \in DOMAIN peers
    /\ \A q \in DOMAIN peers :
        outbox[peers[q].pid] =
            IF q = net_last.msg.peer_id THEN <<net_last.msg>> ELSE <<>>

\* The sweeps that have run since the last Ping (or the handshake) of an entry
sweeps_since(info) ==
    Cardinality({t \in (info.connect_time + 1) .. (now - 1) : sweep_due(t)})

\* C21 (SpecTimers): a connected peer whose Pings reach the registry every
\* PING_SECS is never removed, whatever the offset between its ping timer and
\* the sweep timer; a peer that stops pinging is removed, and its session told
\* to stop, within a bounded number of sweeps: no entry outlives
\* LIVENESS_SECS \div SWEEP_SECS + 2 sweeps after its last Ping.
C21_PingingKeptSilentSwept ==
    /\ [][\A q \in DOMAIN peers :
            sessions[peers[q].pid].st = "up" =>
                /\ q \in DOMAIN peers'
                /\ peers'[q].pid = peers[q].pid
                /\ outbox'[peers[q].pid] = outbox[peers[q].pid]]_vars
    /\ [](\A q \in DOMAIN peers :
            sweeps_since(peers[q]) < LIVENESS_SECS \div SWEEP_SECS + 2)
    /\ [](\A pid \in DOMAIN sessions :
            (sessions[pid].st = "silent" /\ ~(\E q \in DOMAIN peers : peers[q].pid = pid))
                => outbox[pid] = <<StopEvent>>)

C21_Witness ==
    /\ net_last.op = "Sweep"
    /\ \E pid \in DOMAIN sessions :
        /\ sessions[pid].st = "silent"
        /\ ~(\E q \in DOMAIN peers : peers[q].pid = pid)
        /\ outbox[pid] = <<StopEvent>>
    /\ \E q \in DOMAIN peers :
        /\ sessions[peers[q].pid].st = "up"
        /\ outbox[peers[q].pid] = <<>>
        /\ ping_due(now, peers[q])

\* C24 (SpecEntries): over every sequence of AddPeer, Connected, Ping,
\* Disconnected, dial-completed and sweep events the registry never contains
\* the local node's own peer id and keeps one entry, with one session handle,
\* per peer id; every entry is created by a handshake that the authorisation
\* predicate accepted; an entry is removed only by Disconnected for that peer
\* or by the sweep.
C24_RegistryInvariant ==
    /\ [](LocalId \notin DOMAIN peers)
    /\ [][\A q \in DOMAIN peers \cap DOMAIN peers' :
            peers'[q].pid = peers[q].pid]_vars
    /\ [][\A q \in DOMAIN peers' \ DOMAIN peers :
            /\ net_last'.op = "Connected"
            /\ net_last'.peer = q
            /\ net_last'.genesis = LocalGenesis
            /\ peers'[q].pid = net_last'.pid]_vars
    /\ [][\A q \in DOMAIN peers \ DOMAIN peers' :
            \/ net_last'.op = "Disconnected" /\ net_last'.peer = q
            \/ net_last'.op = "Sweep"]_vars

C24_Witness ==
    /\ net_last.op = "Sweep"
    /\ Cardinality(DOMAIN peers) = 1
    /\ \E pid \in DOMAIN sessions :
        /\ sessions[pid].bound = "OutBound"
        /\ outbox[pid] = <<StopEvent>>
        /\ \A q \in DOMAIN peers : peers[q].pid # pid

====
